---- MODULE Spec2Model ----
(***************************************************************************)
(* Model of lib_shopware6_api_base: the admin client's token manager,      *)
(* request engine (_make_request) and paginator (_request_paginated), the  *)
(* Criteria model with its serialization, the building of API URLs, the    *)
(* exchange of both clients with the transport (headers, status, body),    *)
(* the construction of a RangeFilter, and two callers that run             *)
(* _get_session on one client at the same time.                            *)
(***************************************************************************)
EXTENDS Integers, Sequences, FiniteSets, TLC

VARIABLES
    config,        \* self.config: grant_type and the credentials that are missing
    token,         \* self.token: a dict, empty after construction
    session,       \* self.session: how the last session was built
    mode,          \* what the caller runs: "idle", "single", "paged"
    pc,            \* position inside _make_request
    retry,         \* local retry of _make_request
    result,        \* how the current _make_request ended
    response,      \* the records of the last successful response
    log,           \* calls the current _make_request made, in order
    payload,       \* the payload object the caller handed over
    pg,            \* locals of _request_paginated
    content_type,  \* the content_type argument of the current request
    criteria,      \* a Criteria object the caller builds
    raised,        \* the exception of the last operation on the Criteria
    doc,           \* what get_dict last returned for the Criteria
    printed,       \* what pprint_attrs last printed for the Criteria
    endpoint,      \* the endpoint string handed to build_api_url
    url,           \* what build_api_url made of it
    reply,         \* the last exchange with the transport and what the client made of it
    my_filter,     \* the last construction of a RangeFilter
    th,            \* the callers that run _get_session on the one client at the same time
    issued         \* the number of tokens the token endpoint has issued to those callers

clientVars == <<config, token, session, mode, pc, retry, result, response, log, payload, pg,
                content_type>>

criteriaVars == <<criteria, raised, doc, printed>>

urlVars == <<endpoint, url>>

transportVars == <<reply>>

filterVars == <<my_filter>>

threadVars == <<th, issued>>

vars == <<config, token, session, mode, pc, retry, result, response, log, payload, pg,
          content_type, criteria, raised, doc, printed, endpoint, url, reply, my_filter,
          th, issued>>

(***************************************************************************)
(* Bounds of the model and program constants.                              *)
(***************************************************************************)
MaxMissing == 1
MaxRet == 3
MaxJunk == 3
MaxLimit == 4
MaxIds == 3
MaxPages == 4
MaxLen == 4

MAX_RETRY_ATTEMPTS == 2

(***************************************************************************)
(* Python values that can be None, an int or a str holding a decimal.      *)
(***************************************************************************)
NoneV == [t |-> "none", v |-> 0]
IntV(n) == [t |-> "int", v |-> n]
StrV(n) == [t |-> "str", v |-> n]

MinOf(a, b) == IF a <= b THEN a ELSE b

(***************************************************************************)
(* Configuration.                                                          *)
(***************************************************************************)
Credentials == {"shopware_admin_api_url", "client_id", "client_secret", "username", "password"}

GrantType == {"USER_CREDENTIALS", "RESOURCE_OWNER"}

GrantTypeValues == GrantType \cup {"None"}

Configs == {[grant_type |-> g, missing |-> m] :
                g \in GrantTypeValues,
                m \in {s \in SUBSET Credentials : Cardinality(s) <= MaxMissing}}

(***************************************************************************)
(* Tokens: dicts, modelled as functions from the keys present.             *)
(***************************************************************************)
NoToken == [k \in {} |-> 0]

ClientCredentialsToken == [access_token |-> 1]

PasswordToken == [access_token |-> 1, refresh_token |-> 1]

IsRefreshableToken(tok) == "refresh_token" \in DOMAIN tok

\* one entry of the log: what was called, how it ended, and whether the
\* stored token was refreshable when the call was made
Ev(name, out, tok) == [ev |-> name, out |-> out, rt |-> "refresh_token" \in DOMAIN tok]

\* result of a step of the client: the exception raised ("none" if none),
\* the token record afterwards and the calls made
Step(exc, tok, evs) == [exc |-> exc, token |-> tok, log |-> evs]

GetAccessTokenByResourceOwnerClearing(cfg, tok, srv) ==
    IF {"shopware_admin_api_url", "client_id", "client_secret"} \cap cfg.missing # {}
    THEN Step("ShopwareAPIError", tok, <<>>)
    ELSE IF srv = "rejected"
         THEN Step("OAuthError", NoToken, <<Ev("fetch_client_credentials", "rejected", tok)>>)
         ELSE Step("none", ClientCredentialsToken, <<Ev("fetch_client_credentials", "ok", tok)>>)

\* _get_access_token_by_resource_owner: the credentials it needs, then the
\* client-credentials grant; self.token is assigned when fetch_token returns
GetAccessTokenByResourceOwner(cfg, tok, srv) ==
    IF {"shopware_admin_api_url", "client_id", "client_secret"} \cap cfg.missing # {}
    THEN Step("ShopwareAPIError", tok, <<>>)
    ELSE IF srv = "rejected"
         THEN Step("OAuthError", tok, <<Ev("fetch_client_credentials", "rejected", tok)>>)
         ELSE Step("none", ClientCredentialsToken, <<Ev("fetch_client_credentials", "ok", tok)>>)

GetAccessTokenByUserCredentialsNotStoring(cfg, tok, srv) ==
    IF {"shopware_admin_api_url", "username", "password"} \cap cfg.missing # {}
    THEN Step("ShopwareAPIError", tok, <<>>)
    ELSE IF srv = "rejected"
         THEN Step("OAuthError", tok, <<Ev("fetch_password", "rejected", tok)>>)
         ELSE Step("none", tok, <<Ev("fetch_password", "ok", tok)>>)

\* _get_access_token_by_user_credentials: the same with the password grant
GetAccessTokenByUserCredentials(cfg, tok, srv) ==
    IF {"shopware_admin_api_url", "username", "password"} \cap cfg.missing # {}
    THEN Step("ShopwareAPIError", tok, <<>>)
    ELSE IF srv = "rejected"
         THEN Step("OAuthError", tok, <<Ev("fetch_password", "rejected", tok)>>)
         ELSE Step("none", PasswordToken, <<Ev("fetch_password", "ok", tok)>>)

GetTokenSwapped(cfg, tok, srv) ==
    IF cfg.grant_type = "USER_CREDENTIALS"
    THEN GetAccessTokenByResourceOwner(cfg, tok, srv)
    ELSE IF cfg.grant_type = "RESOURCE_OWNER"
         THEN GetAccessTokenByUserCredentials(cfg, tok, srv)
         ELSE Step("ShopwareAPIError", tok, <<>>)

\* _get_token: the grant the configuration selects
GetToken(cfg, tok, srv) ==
    IF cfg.grant_type = "USER_CREDENTIALS"
    THEN GetAccessTokenByUserCredentials(cfg, tok, srv)
    ELSE IF cfg.grant_type = "RESOURCE_OWNER"
         THEN GetAccessTokenByResourceOwner(cfg, tok, srv)
         ELSE Step("ShopwareAPIError", tok, <<>>)

\* self.session after construction
InitialSession == [kind |-> "httpx.Client", token_endpoint |-> FALSE, token |-> NoToken]

BuildSessionAlwaysRefreshing(tok) ==
    [kind |-> "OAuth2Client", token_endpoint |-> TRUE, token |-> tok]

\* the session _get_session builds for a token record: only a refreshable
\* token gets a session that knows the token endpoint and saves new tokens
BuildSession(tok) ==
    IF IsRefreshableToken(tok)
    THEN [kind |-> "OAuth2Client", token_endpoint |-> TRUE, token |-> tok]
    ELSE [kind |-> "OAuth2Client", token_endpoint |-> FALSE, token |-> tok]

GetSessionWithoutToken(cfg, tok, srv) == Step("none", tok, <<>>)

\* _get_session: acquire a token when the record is empty, then build the session
GetSession(cfg, tok, srv) ==
    IF tok = NoToken THEN GetToken(cfg, tok, srv) ELSE Step("none", tok, <<>>)

(***************************************************************************)
(* The transport.  out is what the business endpoint answers, rf is what   *)
(* an automatic refresh (only a session with a token endpoint has one)     *)
(* does before the call.                                                   *)
(***************************************************************************)
Outcomes == {"ok", "unverified", "other_error", "expired"}

RefreshChoices == {"none", "ok", "rejected"}

ServerChoices == {"ok", "rejected"}

ExcOf(out) ==
    CASE out = "ok" -> "none"
      [] out = "expired" -> "TokenExpiredError"
      [] OTHER -> "ShopwareAPIError"

\* _token_saver: the session hands the refreshed token to the client
TokenSaver(tok, newtok) == newtok

Request(ses, tok, out, rf) ==
    IF ses.token_endpoint /\ rf = "rejected"
    THEN Step("OAuthError", tok, <<Ev("refresh", "rejected", tok)>>)
    ELSE IF ses.token_endpoint /\ rf = "ok"
         THEN Step(ExcOf(out), TokenSaver(tok, PasswordToken),
                   <<Ev("refresh", "ok", tok), Ev("http", out, tok)>>)
         ELSE Step(ExcOf(out), tok, <<Ev("http", out, tok)>>)

CONTENT_TYPE_JSON == "json"

ContentTypes == {"json", "JSON", "octet-stream"}

\* content_type.lower()
Lower(ct) == IF ct = "JSON" THEN "json" ELSE ct

\* is_type_bytes
IsTypeBytes(pl) == pl.kind = "bytes"

\* _request before the call: bytes do not go with the content type json
CheckPayload(pl, ct) ==
    IF IsTypeBytes(pl) /\ Lower(ct) = CONTENT_TYPE_JSON THEN "ShopwareAPIError" ELSE "none"

\* _request: the check of the payload, then the call through the session
RequestPayload(pl, ct, ses, tok, out, rf) ==
    IF CheckPayload(pl, ct) # "none"
    THEN Step(CheckPayload(pl, ct), tok, <<>>)
    ELSE Request(ses, tok, out, rf)

(***************************************************************************)
(* _make_request                                                           *)
(***************************************************************************)
Records(page, n) == [i \in 1..n |-> <<page, i>>]

\* the record counts the upstream may answer with: any number up to MaxRet;
\* its data is finite, so a walk without limit finds page MaxPages empty
RespSizes ==
    IF mode = "paged"
    THEN IF pg.total_limit.t = "none" /\ pg.payload_dict.page.v >= MaxPages
         THEN {0}
         ELSE 0..MaxRet
    ELSE {0}

\* except ShopwareAPIError: retry = retry - 1; raise when it reaches 0
OnShopwareAPIError ==
    /\ retry' = retry - 1
    /\ IF retry - 1 = 0
       THEN pc' = "raised" /\ result' = "ShopwareAPIError"
       ELSE pc' = "try" /\ result' = result

\* an exception no clause handles leaves _make_request
Raise(exc) ==
    /\ pc' = "raised"
    /\ result' = exc
    /\ retry' = retry

HandlerOnErrorRetrying(exc) ==
    IF exc = "ShopwareAPIError" THEN OnShopwareAPIError ELSE Raise(exc)

\* an exception raised inside the except TokenExpiredError clause is not
\* handled by the other clauses of the same try statement
HandlerOnError(exc) == Raise(exc)

\* try: self._get_session()
TryGetSession ==
    /\ pc = "try"
    /\ \E srv \in ServerChoices :
         LET r == GetSession(config, token, srv) IN
           /\ token' = r.token
           /\ log' = log \o r.log
           /\ IF r.exc = "none"
              THEN /\ session' = BuildSession(r.token)
                   /\ pc' = "request"
                   /\ UNCHANGED <<retry, result>>
              ELSE /\ session' = session
                   /\ IF r.exc = "ShopwareAPIError"
                      THEN OnShopwareAPIError
                      ELSE Raise(r.exc)
    /\ UNCHANGED <<config, mode, response, payload, pg, content_type>>
    /\ UNCHANGED <<criteriaVars, urlVars, transportVars, filterVars, threadVars>>

\* try: response = self._request(...); retry = 0
TryRequest ==
    /\ pc = "request"
    /\ \E out \in Outcomes, rf \in RefreshChoices, n \in RespSizes :
         LET r == RequestPayload(payload, content_type, session, token, out, rf) IN
           /\ token' = r.token
           /\ log' = log \o r.log
           /\ IF r.exc = "none"
              THEN /\ retry' = 0
                   /\ pc' = "returned"
                   /\ result' = "ok"
                   /\ response' = Records(pg.payload_dict.page.v, n)
              ELSE /\ response' = response
                   /\ IF r.exc = "TokenExpiredError"
                      THEN pc' = "handler" /\ UNCHANGED <<retry, result>>
                      ELSE IF r.exc = "ShopwareAPIError"
                           THEN OnShopwareAPIError
                           ELSE Raise(r.exc)
    /\ UNCHANGED <<config, session, mode, payload, pg, content_type>>
    /\ UNCHANGED <<criteriaVars, urlVars, transportVars, filterVars, threadVars>>

ReacquireByConfig(cfg, tok, srv) == GetToken(cfg, tok, srv)

\* the grant the except TokenExpiredError clause re-acquires with
Reacquire(cfg, tok, srv) ==
    IF IsRefreshableToken(tok)
    THEN GetAccessTokenByUserCredentials(cfg, tok, srv)
    ELSE GetAccessTokenByResourceOwner(cfg, tok, srv)

\* except TokenExpiredError: get a new token, then self._get_session()
HandlerReacquire ==
    /\ pc = "handler"
    /\ \E srv \in ServerChoices :
         LET r == Reacquire(config, token, srv) IN
           /\ log' = log \o r.log
           /\ IF r.exc = "none"
              THEN LET s == GetSession(config, r.token, srv) IN
                     /\ token' = s.token
                     /\ session' = BuildSession(s.token)
                     /\ pc' = "hrequest"
                     /\ UNCHANGED <<retry, result>>
              ELSE /\ token' = r.token
                   /\ session' = session
                   /\ Raise(r.exc)
    /\ UNCHANGED <<config, mode, response, payload, pg, content_type>>
    /\ UNCHANGED <<criteriaVars, urlVars, transportVars, filterVars, threadVars>>

\* except TokenExpiredError: response = self._request(...); retry = 0
\* an exception raised here is not handled by the clauses of the same try
HandlerRequest ==
    /\ pc = "hrequest"
    /\ \E out \in Outcomes, rf \in RefreshChoices, n \in RespSizes :
         LET r == RequestPayload(payload, content_type, session, token, out, rf) IN
           /\ token' = r.token
           /\ log' = log \o r.log
           /\ IF r.exc = "none"
              THEN /\ retry' = 0
                   /\ pc' = "returned"
                   /\ result' = "ok"
                   /\ response' = Records(pg.payload_dict.page.v, n)
              ELSE /\ response' = response
                   /\ HandlerOnError(r.exc)
    /\ UNCHANGED <<config, session, mode, payload, pg, content_type>>
    /\ UNCHANGED <<criteriaVars, urlVars, transportVars, filterVars, threadVars>>

(***************************************************************************)
(* Payloads: None, a dict or a Criteria.  Of a payload the model keeps the *)
(* fields the client reads or writes: limit, page and the number of ids.   *)
(***************************************************************************)
NoPayload == [kind |-> "none", limit |-> NoneV, page |-> NoneV, ids |-> 0]

\* a payload of raw bytes (a file upload)
BytesPayload == [kind |-> "bytes", limit |-> NoneV, page |-> NoneV, ids |-> 0]

LimitValues == {NoneV} \cup {IntV(n) : n \in 0..MaxLimit}

CallerPageValues == {NoneV, IntV(7)}

\* a Criteria never has both a limit and ids (check_limit_ids_mutual_exclusivity)
Payloads ==
    {NoPayload}
    \cup {[kind |-> k, limit |-> l, page |-> p, ids |-> 0] :
             k \in {"dict", "criteria"}, l \in LimitValues, p \in CallerPageValues}
    \cup {[kind |-> "criteria", limit |-> NoneV, page |-> p, ids |-> n] :
             p \in CallerPageValues, n \in 1..MaxIds}

IsTypeCriteria(pl) == pl.kind = "criteria"

\* get_payload_dict: {} for None, a new dict for a Criteria, the caller's
\* own dict for a dict
GetPayloadDict(pl) == [limit |-> pl.limit, page |-> pl.page, ids |-> pl.ids]

WriteThroughAny(pl, pd) == [pl EXCEPT !.limit = pd.limit, !.page = pd.page]

\* a dict payload and payload_dict are one object: what is written to
\* payload_dict is written to the caller's dict
WriteThrough(pl, pd) ==
    IF pl.kind = "dict" THEN [pl EXCEPT !.limit = pd.limit, !.page = pd.page] ELSE pl

IdlePg == [pc |-> "idle", junk_size |-> 0, total_limit |-> NoneV, records_left |-> 0,
           page |-> 0, data |-> <<>>, payload_dict |-> GetPayloadDict(NoPayload),
           sent |-> <<>>, pages |-> <<>>, given |-> NoPayload]

(***************************************************************************)
(* The caller of single requests (request_get, request_post, ...).         *)
(***************************************************************************)
\* retry = MAX_RETRY_ATTEMPTS
EnterMakeRequest ==
    /\ pc' = "try"
    /\ retry' = MAX_RETRY_ATTEMPTS
    /\ result' = "none"
    /\ response' = <<>>
    /\ log' = <<>>

LeaveMakeRequest ==
    /\ pc' = "idle"
    /\ retry' = 0
    /\ result' = "none"
    /\ response' = <<>>
    /\ log' = <<>>

\* the payloads of single requests: none, bytes, a Criteria, a dict
SinglePayloads ==
    {NoPayload, BytesPayload,
     [kind |-> "criteria", limit |-> IntV(1), page |-> NoneV, ids |-> 0],
     [kind |-> "dict", limit |-> IntV(1), page |-> NoneV, ids |-> 0]}

CallMakeRequest ==
    /\ mode = "idle"
    /\ mode' = "single"
    /\ payload' \in SinglePayloads
    /\ content_type' \in ContentTypes
    /\ EnterMakeRequest
    /\ UNCHANGED <<config, token, session, pg>>
    /\ UNCHANGED <<criteriaVars, urlVars, transportVars, filterVars, threadVars>>

ReturnToCaller ==
    /\ mode = "single"
    /\ pc \in {"returned", "raised"}
    /\ mode' = "idle"
    /\ payload' = NoPayload
    /\ content_type' = CONTENT_TYPE_JSON
    /\ LeaveMakeRequest
    /\ UNCHANGED <<config, token, session, pg>>
    /\ UNCHANGED <<criteriaVars, urlVars, transportVars, filterVars, threadVars>>

\* the caller assigns client.config.grant_type between two requests
SetGrantType ==
    /\ mode = "idle"
    /\ \E g \in GrantTypeValues :
         /\ g # config.grant_type
         /\ config' = [config EXCEPT !.grant_type = g]
    /\ UNCHANGED <<token, session, mode, pc, retry, result, response, log, payload, pg, content_type>>
    /\ UNCHANGED <<criteriaVars, urlVars, transportVars, filterVars, threadVars>>

(***************************************************************************)
(* _request_paginated                                                      *)
(***************************************************************************)
\* when ids are given, junk_size and limit become len(payload.ids)
IdsOverride(pl, pd, junk) ==
    IF IsTypeCriteria(pl) /\ pl.ids > 0
    THEN [junk_size |-> pl.ids, pd |-> [pd EXCEPT !.limit = IntV(pl.ids)]]
    ELSE [junk_size |-> junk, pd |-> pd]

FirstLimitJunkOnly(total_limit, junk) ==
    IF total_limit.t = "none" THEN StrV(junk) ELSE IntV(junk)

\* the limit every page request carries, set once before the loop:
\* str(junk_size) without a limit, min(total_limit, junk_size) with one
FirstLimit(total_limit, junk) ==
    IF total_limit.t = "none" THEN StrV(junk) ELSE IntV(MinOf(total_limit.v, junk))

NoTruncate(data, total_limit) == data

\* response_dict["data"][:total_limit]
Truncate(data, total_limit) == SubSeq(data, 1, MinOf(total_limit, Len(data)))

\* page = page + 1
NextPage(page) == page + 1

KeepCallerPage(pd, page) == IF pd.page.t = "none" THEN [pd EXCEPT !.page = IntV(page)] ELSE pd

\* payload_dict["page"] = page
SetPage(pd, page) == [pd EXCEPT !.page = IntV(page)]

ConcatReplace(data, partial) == partial

\* response_dict["data"] + partial_data["data"]
Concat(data, partial) == data \o partial

LimitReachedBelowZero(records_left) == records_left < 0

\* if records_left < 1: truncate and break
LimitReached(records_left) == records_left < 1

\* lines 407-430: everything before the loop
CallRequestPaginated ==
    /\ mode = "idle"
    /\ mode' = "paged"
    /\ \E pl \in Payloads, junk \in 1..MaxJunk :
         LET pd0 == GetPayloadDict(pl)
             o == IdsOverride(pl, pd0, junk)
             total_limit == o.pd.limit
             pd1 == [o.pd EXCEPT !.limit = FirstLimit(total_limit, o.junk_size)]
         IN  /\ pg' = [pc |-> "loop", junk_size |-> o.junk_size,
                       total_limit |-> total_limit,
                       records_left |-> IF total_limit.t = "none" THEN 0 ELSE total_limit.v,
                       page |-> 1, data |-> <<>>, payload_dict |-> pd1,
                       sent |-> <<>>, pages |-> <<>>, given |-> pl]
             /\ payload' = WriteThrough(pl, pd1)
    /\ UNCHANGED <<config, token, session, pc, retry, result, response, log, content_type>>
    /\ UNCHANGED <<criteriaVars, urlVars, transportVars, filterVars, threadVars>>

\* lines 433-440: set the page and call _make_request with payload_dict
PageRequest ==
    /\ mode = "paged"
    /\ pg.pc = "loop"
    /\ LET pd == SetPage(pg.payload_dict, pg.page) IN
         /\ pg' = [pg EXCEPT !.pc = "wait", !.payload_dict = pd,
                             !.sent = Append(@, [page |-> pd.page, limit |-> pd.limit])]
         /\ payload' = WriteThrough(payload, pd)
    /\ EnterMakeRequest
    /\ UNCHANGED <<config, token, session, mode, content_type>>
    /\ UNCHANGED <<criteriaVars, urlVars, transportVars, filterVars, threadVars>>

\* lines 441-451: take the page, go on or stop
PageResponse ==
    /\ mode = "paged"
    /\ pg.pc = "wait"
    /\ pc = "returned"
    /\ LET n == Len(response)
           data == Concat(pg.data, response)
           left == pg.records_left - n
       IN  IF n > 0
           THEN IF pg.total_limit.t # "none"
                THEN IF LimitReached(left)
                     THEN pg' = [pg EXCEPT !.pc = "returned", !.pages = Append(@, n),
                                           !.data = Truncate(data, pg.total_limit.v),
                                           !.page = NextPage(@), !.records_left = left]
                     ELSE pg' = [pg EXCEPT !.pc = "loop", !.pages = Append(@, n),
                                           !.data = data,
                                           !.page = NextPage(@), !.records_left = left]
                ELSE pg' = [pg EXCEPT !.pc = "loop", !.pages = Append(@, n),
                                      !.data = data, !.page = NextPage(@)]
           ELSE pg' = [pg EXCEPT !.pc = "returned", !.pages = Append(@, n)]
    /\ LeaveMakeRequest
    /\ UNCHANGED <<config, token, session, mode, payload, content_type>>
    /\ UNCHANGED <<criteriaVars, urlVars, transportVars, filterVars, threadVars>>

\* an exception of _make_request leaves _request_paginated
PageRaise ==
    /\ mode = "paged"
    /\ pg.pc = "wait"
    /\ pc = "raised"
    /\ pg' = [pg EXCEPT !.pc = "raised"]
    /\ LeaveMakeRequest
    /\ UNCHANGED <<config, token, session, mode, payload, content_type>>
    /\ UNCHANGED <<criteriaVars, urlVars, transportVars, filterVars, threadVars>>

PagedReturn ==
    /\ mode = "paged"
    /\ pg.pc \in {"returned", "raised"}
    /\ mode' = "idle"
    /\ pg' = IdlePg
    /\ payload' = NoPayload
    /\ UNCHANGED <<config, token, session, pc, retry, result, response, log, content_type>>
    /\ UNCHANGED <<criteriaVars, urlVars, transportVars, filterVars, threadVars>>

(***************************************************************************)
(* Criteria.  A Python value is a tree: None, an int, a str, a list, a     *)
(* dict, or an instance of a pydantic model with its fields.               *)
(***************************************************************************)
NameV(s) == [t |-> "name", v |-> s]
ListV(q) == [t |-> "list", v |-> q]
DictV(f) == [t |-> "dict", v |-> f]
ModelV(f) == [t |-> "model", v |-> f]

EmptyList == ListV(<<>>)

EmptyDict == DictV(<<>>)

\* v in (None, [], {})
IsEmptyValue(x) ==
    \/ x.t = "none"
    \/ x.t \in {"list", "dict"} /\ DOMAIN x.v = {}

\* Criteria(...): the fields of the model with their defaults
Criteria(limit, page, ids, associations, filter, aggregations) ==
    ModelV([limit |-> limit, page |-> page, aggregations |-> ListV(aggregations),
            associations |-> DictV(associations), filter |-> ListV(filter),
            grouping |-> EmptyList, ids |-> ListV(ids), includes |-> EmptyDict,
            post_filter |-> EmptyList, query |-> EmptyList, sort |-> EmptyList,
            term |-> NoneV, total_count_mode |-> NoneV])

\* Criteria()
DefaultCriteria == Criteria(NoneV, NoneV, <<>>, <<>>, <<>>, <<>>)

EqualsFilter(field, value) ==
    ModelV([field |-> NameV(field), value |-> value, type |-> NameV("equals")])

MultiFilter(operator, queries) ==
    ModelV([operator |-> NameV(operator), queries |-> ListV(queries), type |-> NameV("multi")])

AvgAggregation(name, field) ==
    ModelV([name |-> NameV(name), field |-> NameV(field), type |-> NameV("avg")])

TermsAggregation(name, field, aggregation) ==
    ModelV([name |-> NameV(name), field |-> NameV(field), sort |-> NoneV, limit |-> NoneV,
            aggregation |-> aggregation, type |-> NameV("terms")])

FilterAggregation(name, filter, aggregation) ==
    ModelV([name |-> NameV(name), filter |-> ListV(filter), aggregation |-> aggregation,
            type |-> NameV("filter")])

\* lists of n ids
Ids(n) == [i \in 1..n |-> StrV(i)]

\* the values the caller gives to the fields
FilterLists ==
    << <<>>,
       <<EqualsFilter("stock", IntV(10))>>,
       <<EqualsFilter("stock", NoneV)>>,
       <<MultiFilter("or", <<>>)>>,
       <<MultiFilter("or", <<EqualsFilter("stock", NoneV)>>)>> >>

AggregationLists ==
    << <<>>,
       <<AvgAggregation("avg-price", "price")>>,
       <<TermsAggregation("manufacturer-ids", "manufacturerId", NoneV)>>,
       <<FilterAggregation("active-price-avg", <<>>, AvgAggregation("avg-price", "price"))>> >>

AssociationDicts ==
    << <<>>,
       [k \in {"products"} |-> DefaultCriteria],
       [k \in {"products"} |-> Criteria(IntV(5), NoneV, <<>>, <<>>, <<>>, <<>>)],
       [k \in {"products"} |->
           Criteria(IntV(5), NoneV, <<>>,
                    [j \in {"manufacturer"} |-> Criteria(IntV(1), NoneV, <<>>, <<>>, <<>>, <<>>)],
                    <<>>, <<>>)],
       [k \in {"products"} |->
           Criteria(NoneV, NoneV, <<>>, <<>>, <<EqualsFilter("stock", NoneV)>>, <<>>)] >>

\* check_limit_ids_mutual_exclusivity: the exception it raises
CheckLimitIdsMutualExclusivity(c) ==
    IF c.v.limit.t # "none" /\ Len(c.v.ids.v) > 0 THEN "ValidationError" ELSE "none"

\* the model has no validate_assignment: an assignment stores the value
SetAttr(c, name, value) == [c EXCEPT !.v[name] = value]

\* model_dump(mode="python"): every model becomes a dict of all its fields
RECURSIVE ModelDump(_)
ModelDump(x) ==
    CASE x.t \in {"model", "dict"} -> DictV([k \in DOMAIN x.v |-> ModelDump(x.v[k])])
      [] x.t = "list" -> ListV([i \in DOMAIN x.v |-> ModelDump(x.v[i])])
      [] OTHER -> x

\* get_dict: the dump without the top-level entries that are None, [] or {}
GetDict(c) ==
    LET data == ModelDump(c) IN
      DictV([k \in {j \in DOMAIN data.v : ~IsEmptyValue(data.v[j])} |-> data.v[k]])

\* _filter_empty: an entry is tested as it is, then its value is filtered
RECURSIVE FilterEmpty(_)
FilterEmpty(data) ==
    CASE data.t = "dict" ->
           DictV([k \in {j \in DOMAIN data.v : ~IsEmptyValue(data.v[j])} |->
                     FilterEmpty(data.v[k])])
      [] data.t = "list" -> ListV([i \in DOMAIN data.v |-> FilterEmpty(data.v[i])])
      [] OTHER -> data

\* the state of the Criteria variables after an assignment or construction
Assigned(c) ==
    /\ criteria' = c
    /\ raised' = "none"
    /\ doc' = NoneV
    /\ printed' = NoneV

\* my_criteria = Criteria(limit=..., ids=...)
NewCriteria ==
    /\ \E l \in LimitValues, n \in 0..MaxIds :
         LET c == Criteria(l, NoneV, Ids(n), <<>>, <<>>, <<>>) IN
           IF CheckLimitIdsMutualExclusivity(c) # "none"
           THEN /\ raised' = CheckLimitIdsMutualExclusivity(c)
                /\ UNCHANGED <<criteria, doc, printed>>
           ELSE Assigned(c)
    /\ UNCHANGED <<clientVars, urlVars, transportVars, filterVars, threadVars>>

\* my_criteria.limit = ...
AssignLimit ==
    /\ \E l \in LimitValues : l # criteria.v.limit /\ Assigned(SetAttr(criteria, "limit", l))
    /\ UNCHANGED <<clientVars, urlVars, transportVars, filterVars, threadVars>>

\* my_criteria.page = ...
AssignPage ==
    /\ \E p \in CallerPageValues : p # criteria.v.page /\ Assigned(SetAttr(criteria, "page", p))
    /\ UNCHANGED <<clientVars, urlVars, transportVars, filterVars, threadVars>>

\* my_criteria.ids = [...]
AssignIds ==
    /\ \E n \in 0..MaxIds :
         /\ ListV(Ids(n)) # criteria.v.ids
         /\ Assigned(SetAttr(criteria, "ids", ListV(Ids(n))))
    /\ UNCHANGED <<clientVars, urlVars, transportVars, filterVars, threadVars>>

\* my_criteria.associations = {...}
AssignAssociations ==
    /\ \E i \in DOMAIN AssociationDicts :
         Assigned(SetAttr(criteria, "associations", DictV(AssociationDicts[i])))
    /\ UNCHANGED <<clientVars, urlVars, transportVars, filterVars, threadVars>>

\* my_criteria.filter = [...]
AssignFilter ==
    /\ \E i \in DOMAIN FilterLists :
         Assigned(SetAttr(criteria, "filter", ListV(FilterLists[i])))
    /\ UNCHANGED <<clientVars, urlVars, transportVars, filterVars, threadVars>>

\* my_criteria.aggregations = [...]
AssignAggregations ==
    /\ \E i \in DOMAIN AggregationLists :
         Assigned(SetAttr(criteria, "aggregations", ListV(AggregationLists[i])))
    /\ UNCHANGED <<clientVars, urlVars, transportVars, filterVars, threadVars>>

\* my_criteria.get_dict()
CallGetDict ==
    /\ doc' = GetDict(criteria)
    /\ raised' = "none"
    /\ UNCHANGED <<criteria, printed>>
    /\ UNCHANGED <<clientVars, urlVars, transportVars, filterVars, threadVars>>

\* pprint_attrs(my_criteria)
PprintAttrs ==
    /\ printed' = FilterEmpty(ModelDump(criteria))
    /\ raised' = "none"
    /\ UNCHANGED <<criteria, doc>>
    /\ UNCHANGED <<clientVars, urlVars, transportVars, filterVars, threadVars>>

(***************************************************************************)
(* Endpoints and URLs.  A string is a sequence of characters; "p" stands   *)
(* for any of [A-Za-z0-9-_], " " for whitespace, "?" for any other         *)
(* character, and "H" for the scheme and host of the base URL.             *)
(***************************************************************************)
Chars == {"p", "/", ".", " ", "?"}

\* _VALID_ENDPOINT_PATTERN: ^[a-zA-Z0-9\-_./]+$
ValidEndpointChars == {"p", "/", "."}

Endpoints == UNION {[1..n -> Chars] : n \in 0..MaxLen}

\* the base URL of the configuration, without and with a trailing slash
BaseUrls == {<<"H", "/", "p">>, <<"H", "/", "p", "/">>}

RECURSIVE LStrip(_, _)
LStrip(s, cs) == IF s # <<>> /\ s[1] \in cs THEN LStrip(Tail(s), cs) ELSE s

RECURSIVE RStrip(_, _)
RStrip(s, cs) ==
    IF s # <<>> /\ s[Len(s)] \in cs THEN RStrip(SubSeq(s, 1, Len(s) - 1), cs) ELSE s

\* str.strip()
Strip(s) == RStrip(LStrip(s, {" "}), {" "})

\* ".." in s
HasDotDot(s) == \E i \in 1..(Len(s) - 1) : s[i] = "." /\ s[i + 1] = "."

\* str.split("/")
RECURSIVE Split(_)
Split(s) ==
    IF \E i \in 1..Len(s) : s[i] = "/"
    THEN LET i == CHOOSE j \in 1..Len(s) : s[j] = "/" /\ \A k \in 1..(j - 1) : s[k] # "/"
         IN  <<SubSeq(s, 1, i - 1)>> \o Split(SubSeq(s, i + 1, Len(s)))
    ELSE <<s>>

\* "/".join(segments)
RECURSIVE Join(_)
Join(segs) ==
    IF segs = <<>> THEN <<>>
    ELSE IF Len(segs) = 1 THEN segs[1]
         ELSE segs[1] \o <<"/">> \o Join(Tail(segs))

IsNonEmpty(seg) == seg # <<>>

\* urljoin: the loop over the segments
RECURSIVE ResolvePath(_, _)
ResolvePath(segs, resolved) ==
    IF segs = <<>> THEN resolved
    ELSE IF segs[1] = <<".", ".">>
         THEN ResolvePath(Tail(segs),
                          IF resolved = <<>> THEN resolved
                          ELSE SubSeq(resolved, 1, Len(resolved) - 1))
         ELSE IF segs[1] = <<".">>
              THEN ResolvePath(Tail(segs), resolved)
              ELSE ResolvePath(Tail(segs), Append(resolved, segs[1]))

\* urljoin(base, path) for a base "H" + bpath and a path without scheme,
\* host, query or fragment
UrlJoin(base, path) ==
    LET bpath == Tail(base)
        parts == Split(bpath)
        base_parts == IF parts[Len(parts)] # <<>> THEN SubSeq(parts, 1, Len(parts) - 1) ELSE parts
        joined == base_parts \o Split(path)
        segments == IF path[1] = "/"
                    THEN Split(path)
                    ELSE <<joined[1]>>
                         \o SelectSeq(SubSeq(joined, 2, Len(joined) - 1), IsNonEmpty)
                         \o <<joined[Len(joined)]>>
        resolved == ResolvePath(segments, <<>>)
        resolved_path == IF segments[Len(segments)] \in {<<".">>, <<".", ".">>}
                         THEN Append(resolved, <<>>)
                         ELSE resolved
    IN  <<"H">> \o (IF Join(resolved_path) = <<>> THEN <<"/">> ELSE Join(resolved_path))

ValidateEndpointKeepingSlash(ep) ==
    LET e == Strip(ep) IN
      IF e = <<>> \/ HasDotDot(e) \/ \E i \in 1..Len(e) : e[i] \notin ValidEndpointChars
      THEN [exc |-> "ShopwareAPIError", value |-> <<>>]
      ELSE [exc |-> "none", value |-> e]

\* validate_endpoint
ValidateEndpoint(ep) ==
    LET e == LStrip(Strip(ep), {"/"}) IN
      IF e = <<>>
      THEN [exc |-> "ShopwareAPIError", value |-> <<>>]
      ELSE IF HasDotDot(e)
           THEN [exc |-> "ShopwareAPIError", value |-> <<>>]
           ELSE IF \E i \in 1..Len(e) : e[i] \notin ValidEndpointChars
                THEN [exc |-> "ShopwareAPIError", value |-> <<>>]
                ELSE [exc |-> "none", value |-> e]

\* build_api_url
BuildApiUrl(base_url, ep) ==
    LET validated == ValidateEndpoint(ep)
        base == IF base_url[Len(base_url)] # "/" THEN Append(base_url, "/") ELSE base_url
    IN  IF validated.exc # "none"
        THEN [called |-> TRUE, base |-> base_url, exc |-> validated.exc, value |-> <<>>]
        ELSE [called |-> TRUE, base |-> base_url, exc |-> "none",
              value |-> UrlJoin(base, validated.value)]

NoUrl == [called |-> FALSE, base |-> <<>>, exc |-> "none", value |-> <<>>]

\* url = build_api_url(base_url, endpoint)
CallBuildApiUrl ==
    /\ ~url.called
    /\ \E b \in BaseUrls : url' = BuildApiUrl(b, endpoint)
    /\ UNCHANGED <<endpoint, clientVars, criteriaVars, transportVars, filterVars, threadVars>>

(***************************************************************************)
(* One exchange with the transport: the request _request hands over and    *)
(* what the client makes of the response.  A header dict is a function     *)
(* from the names present; a body is a JSON object, the JSON array [],     *)
(* nothing at all, or text that is not JSON.                               *)
(***************************************************************************)
HttpMethods == {"GET", "POST", "PUT", "PATCH", "DELETE"}

\* the methods whose request method takes a content_type
MethodsWithContentType == {"POST", "PUT", "PATCH"}

NoHeaders == [k \in {} |-> ""]

HEADER_write_in_single_transactions == [k \in {"single-operation"} |-> "true"]

HEADER_index_asynchronously == [k \in {"indexing-behavior"} |-> "use-queue-indexing"]

\* headers.update(update_header_fields)
Update(headers, fields) ==
    [k \in DOMAIN headers \cup DOMAIN fields |->
        IF k \in DOMAIN fields THEN fields[k] ELSE headers[k]]

\* the update_header_fields a caller passes: none, one new field, two new
\* fields, a field that overrides a default
HeaderFields ==
    << NoHeaders,
       HEADER_write_in_single_transactions,
       Update(HEADER_index_asynchronously, HEADER_write_in_single_transactions),
       [k \in {"Accept"} |-> "text/plain"] >>

\* Shopware6AdminAPIClientBase._get_headers
GetHeaders(ct, update_header_fields) ==
    Update([k \in {"Content-Type", "Accept"} |->
               IF k = "Content-Type" THEN "application/" \o Lower(ct) ELSE "application/json"],
           update_header_fields)

\* Shopware6StoreFrontClientBase._get_headers
StoreFrontGetHeaders(update_header_fields) ==
    Update([k \in {"Content-Type", "Accept", "sw-access-key"} |->
               IF k = "sw-access-key" THEN "key" ELSE "application/json"],
           update_header_fields)

\* the headers argument of self.session.get/patch/post/put/delete: the
\* delete call has none
SessionCall(method, headers) == IF method = "DELETE" THEN NoHeaders ELSE headers

\* httpx.request(..., headers=headers) of the storefront client
HttpxRequest(method, headers) == headers

Statuses == {200, 204, 404}

Bodies == {"object", "empty_array", "empty", "undecodable"}

\* response.raise_for_status(), HTTPStatusError turned into ShopwareAPIError
RaiseForStatus(status) == IF status >= 400 THEN "ShopwareAPIError" ELSE "none"

\* response.json(): the exception it raises
JsonExc(body) == IF body \in {"empty", "undecodable"} THEN "JSONDecodeError" ELSE "none"

Decoded(exc, value) == [exc |-> exc, value |-> value]

\* the end of _make_request: dict(response.json()), {} when the body does
\* not decode
ResponseDict(body) ==
    IF JsonExc(body) # "none"
    THEN Decoded("none", "empty_dict")
    ELSE Decoded("none", IF body = "object" THEN "dict" ELSE "empty_dict")

\* Shopware6StoreFrontClientBase._request_dict after _request
StoreFrontRequestDict(body) ==
    IF JsonExc(body) # "none"
    THEN Decoded(JsonExc(body), "none")
    ELSE IF body = "empty_array"
         THEN Decoded("ShopwareAPIError", "none")
         ELSE Decoded("none", "dict")

NoReply == [called |-> FALSE, client |-> "none", method |-> "GET", ct |-> CONTENT_TYPE_JSON,
            update |-> NoHeaders, sent |-> NoHeaders, status |-> 200, body |-> "empty",
            exc |-> "none", value |-> "none"]

\* what is known of an exchange once the response is there
Exchange(client, method, ct, update, sent, status, body, decoded) ==
    [called |-> TRUE, client |-> client, method |-> method, ct |-> ct, update |-> update,
     sent |-> sent, status |-> status, body |-> body,
     exc |-> IF RaiseForStatus(status) # "none" THEN RaiseForStatus(status) ELSE decoded.exc,
     value |-> IF RaiseForStatus(status) # "none" THEN "none" ELSE decoded.value]

\* a request method of the admin client whose one attempt gets a response:
\* _request builds the headers and calls the session, _make_request decodes
AdminRequest ==
    /\ \E method \in HttpMethods, ct \in ContentTypes, i \in DOMAIN HeaderFields,
          status \in Statuses, body \in Bodies :
         /\ method \notin MethodsWithContentType => ct = CONTENT_TYPE_JSON
         /\ reply' = Exchange("admin", method, ct, HeaderFields[i],
                              SessionCall(method, GetHeaders(ct, HeaderFields[i])),
                              status, body, ResponseDict(body))
    /\ UNCHANGED <<clientVars, criteriaVars, urlVars, filterVars, threadVars>>

\* _request_paginated reading a page: partial_data["data"] of a dict
\* without that key
PartialData(decoded) ==
    IF decoded.exc = "none" /\ decoded.value = "empty_dict"
    THEN Decoded("KeyError", "none")
    ELSE decoded

\* request_get_paginated and request_post_paginated
PaginatedMethods == {"GET_PAGINATED", "POST_PAGINATED"}

\* the HTTP method of a request method
HttpMethodOf(method) ==
    CASE method = "GET_PAGINATED" -> "GET"
      [] method = "POST_PAGINATED" -> "POST"
      [] OTHER -> method

\* a paginated request method of the admin client at a page whose one
\* attempt gets a response: _request, _make_request, then the paginator
AdminPaginatedRequest ==
    /\ \E method \in PaginatedMethods, i \in DOMAIN HeaderFields,
          status \in Statuses, body \in Bodies :
         reply' = Exchange("admin", method, CONTENT_TYPE_JSON, HeaderFields[i],
                           SessionCall(HttpMethodOf(method),
                                       GetHeaders(CONTENT_TYPE_JSON, HeaderFields[i])),
                           status, body, PartialData(ResponseDict(body)))
    /\ UNCHANGED <<clientVars, criteriaVars, urlVars, filterVars, threadVars>>

\* a request method of the storefront client: _request, then _request_dict
StoreFrontRequest ==
    /\ \E method \in HttpMethods, i \in DOMAIN HeaderFields,
          status \in Statuses, body \in Bodies :
         reply' = Exchange("storefront", method, CONTENT_TYPE_JSON, HeaderFields[i],
                           HttpxRequest(method, StoreFrontGetHeaders(HeaderFields[i])),
                           status, body, StoreFrontRequestDict(body))
    /\ UNCHANGED <<clientVars, criteriaVars, urlVars, filterVars, threadVars>>

(***************************************************************************)
(* RangeFilter.  The parameters a caller passes are a dict from strings to *)
(* ints or datetimes, as the field is declared.                            *)
(***************************************************************************)
DatetimeV(n) == [t |-> "datetime", v |-> n]

\* valid_keys of validate_range_keys
RangeParam == {"gte", "lte", "gt", "lt"}

ParameterKeys == RangeParam \cup {"less", "eq"}

ParameterValues == {IntV(20), DatetimeV(1)}

ParameterDicts == UNION {[ks -> ParameterValues] : ks \in SUBSET ParameterKeys}

ValidateRangeKeysAcceptingAll(v) == "none"

\* validate_range_keys: the exception it raises
ValidateRangeKeys(v) ==
    IF \E key \in DOMAIN v : key \notin RangeParam THEN "ValidationError" ELSE "none"

\* RangeFilter(field=..., parameters=...): the exception, and the object
\* when there is none
RangeFilter(field, parameters) ==
    IF ValidateRangeKeys(parameters) # "none"
    THEN [made |-> TRUE, parameters |-> parameters, exc |-> ValidateRangeKeys(parameters),
          value |-> NoneV]
    ELSE [made |-> TRUE, parameters |-> parameters, exc |-> "none",
          value |-> ModelV([field |-> NameV(field), parameters |-> DictV(parameters),
                            type |-> NameV("range")])]

NoFilter == [made |-> FALSE, parameters |-> NoHeaders, exc |-> "none", value |-> NoneV]

\* my_filter = RangeFilter(field='stock', parameters={...})
NewRangeFilter ==
    /\ \E parameters \in ParameterDicts : my_filter' = RangeFilter("stock", parameters)
    /\ UNCHANGED <<clientVars, criteriaVars, urlVars, transportVars, threadVars>>

(***************************************************************************)
(* Two callers that run a request on one client at the same time.  Of the  *)
(* request the model keeps _get_session: the test of self.token, the call  *)
(* to the token endpoint, the assignment of its result to self.token and   *)
(* the building of the session.  The token endpoint numbers its tokens.    *)
(***************************************************************************)
Callers == {1, 2}

IdleCaller == [pc |-> "idle", fetched |-> NoToken]

\* what a step of a caller inside _get_session leaves alone
callerFrame == <<config, mode, pc, retry, result, response, log, payload, pg, content_type,
                 criteria, raised, doc, printed, endpoint, url, reply, my_filter>>

\* the n-th token of the token endpoint, with the keys of tok
Issued(tok, n) == [k \in DOMAIN tok |-> n]

StoreTokenIfEmpty(tok, fetched) == IF tok = NoToken THEN fetched ELSE tok

\* self.token = client.fetch_token(...)
StoreToken(tok, fetched) == fetched

\* a caller starts a request: _make_request is about to call _get_session
CallerStarts(t) ==
    /\ th[t].pc = "idle"
    /\ th' = [th EXCEPT ![t].pc = "check"]
    /\ UNCHANGED <<token, session, issued>>
    /\ UNCHANGED callerFrame

\* if not self.token
CallerChecks(t) ==
    /\ th[t].pc = "check"
    /\ th' = [th EXCEPT ![t].pc = IF token = NoToken THEN "fetch" ELSE "session"]
    /\ UNCHANGED <<token, session, issued>>
    /\ UNCHANGED callerFrame

\* self._get_token() up to the return of client.fetch_token
CallerFetches(t) ==
    /\ th[t].pc = "fetch"
    /\ \E srv \in ServerChoices :
         LET r == GetToken(config, token, srv) IN
           IF r.exc = "none"
           THEN /\ issued' = issued + 1
                /\ th' = [th EXCEPT ![t].pc = "store", ![t].fetched = Issued(r.token, issued + 1)]
           ELSE /\ issued' = issued
                /\ th' = [th EXCEPT ![t].pc = "raised"]
    /\ UNCHANGED <<token, session>>
    /\ UNCHANGED callerFrame

\* the assignment of the fetched token to self.token
CallerStores(t) ==
    /\ th[t].pc = "store"
    /\ token' = StoreToken(token, th[t].fetched)
    /\ th' = [th EXCEPT ![t].pc = "session"]
    /\ UNCHANGED <<session, issued>>
    /\ UNCHANGED callerFrame

\* self.session = OAuth2Client(token=self.token, ...)
CallerBuildsSession(t) ==
    /\ th[t].pc = "session"
    /\ session' = BuildSession(token)
    /\ th' = [th EXCEPT ![t].pc = "done"]
    /\ UNCHANGED <<token, issued>>
    /\ UNCHANGED callerFrame

InitClient ==
    /\ config \in Configs
    /\ token = NoToken
    /\ session = InitialSession
    /\ mode = "idle"
    /\ pc = "idle"
    /\ retry = 0
    /\ result = "none"
    /\ response = <<>>
    /\ log = <<>>
    /\ payload = NoPayload
    /\ pg = IdlePg
    /\ content_type = CONTENT_TYPE_JSON

InitCriteria ==
    /\ criteria = DefaultCriteria
    /\ raised = "none"
    /\ doc = NoneV
    /\ printed = NoneV

InitUrl ==
    /\ endpoint = <<>>
    /\ url = NoUrl

InitTransport == reply = NoReply

InitFilter == my_filter = NoFilter

InitThreads ==
    /\ th = [t \in Callers |-> IdleCaller]
    /\ issued = 0

Init == InitClient /\ InitCriteria /\ InitUrl /\ InitTransport /\ InitFilter /\ InitThreads

Next ==
    \/ CallMakeRequest
    \/ TryGetSession
    \/ TryRequest
    \/ HandlerReacquire
    \/ HandlerRequest
    \/ ReturnToCaller
    \/ SetGrantType

Spec == Init /\ [][Next]_vars

\* paginated calls on a client with a complete configuration
InitPaginated ==
    /\ Init
    /\ config.missing = {}
    /\ config.grant_type \in GrantType

NextPaginated ==
    \/ CallRequestPaginated
    \/ PageRequest
    \/ TryGetSession
    \/ TryRequest
    \/ HandlerReacquire
    \/ HandlerRequest
    \/ PageResponse
    \/ PageRaise
    \/ PagedReturn

SpecPaginated == InitPaginated /\ [][NextPaginated]_vars

\* single and paginated calls where every step the client can take is taken:
\* a call the client makes returns, and the client then runs on; when the
\* caller starts or ends a call is the caller's choice
NextTermination ==
    \/ NextPaginated
    \/ CallMakeRequest
    \/ ReturnToCaller

Fairness ==
    /\ WF_vars(TryGetSession)
    /\ WF_vars(TryRequest)
    /\ WF_vars(HandlerReacquire)
    /\ WF_vars(HandlerRequest)
    /\ WF_vars(PageRequest)
    /\ WF_vars(PageResponse)
    /\ WF_vars(PageRaise)

SpecTermination == InitPaginated /\ [][NextTermination]_vars /\ Fairness

\* a caller that builds a Criteria, changes its fields and serializes it
NextCriteria ==
    \/ NewCriteria
    \/ AssignLimit
    \/ AssignPage
    \/ AssignIds
    \/ AssignAssociations
    \/ AssignFilter
    \/ AssignAggregations
    \/ CallGetDict
    \/ PprintAttrs

SpecCriteria == InitPaginated /\ [][NextCriteria]_vars

\* build_api_url applied to every endpoint string up to MaxLen characters
InitEndpoint ==
    /\ InitClient
    /\ config.missing = {}
    /\ config.grant_type \in GrantType
    /\ InitCriteria
    /\ endpoint \in Endpoints
    /\ url = NoUrl
    /\ InitTransport
    /\ InitFilter
    /\ InitThreads

NextEndpoint == CallBuildApiUrl

SpecEndpoint == InitEndpoint /\ [][NextEndpoint]_vars

\* requests of both clients whose one attempt gets a response
NextTransport ==
    \/ AdminRequest
    \/ AdminPaginatedRequest
    \/ StoreFrontRequest

SpecTransport == InitPaginated /\ [][NextTransport]_vars

\* a caller that constructs RangeFilters
NextFilter == NewRangeFilter

SpecFilter == InitPaginated /\ [][NextFilter]_vars

\* two callers on one client, for every configuration
NextConcurrent ==
    \E t \in Callers :
        \/ CallerStarts(t)
        \/ CallerChecks(t)
        \/ CallerFetches(t)
        \/ CallerStores(t)
        \/ CallerBuildsSession(t)

SpecConcurrent == Init /\ [][NextConcurrent]_vars

(***************************************************************************)
(* Reading the log of the current request.                                 *)
(***************************************************************************)
HttpIdx == {i \in 1..Len(log) : log[i].ev = "http"}

FetchEvents == {"fetch_password", "fetch_client_credentials"}

Finished == pc \in {"returned", "raised"}

\* the position of the first attempt that ended with the token-expiry
\* signal, 0 when there is none
FirstExpired ==
    LET E == {i \in HttpIdx : log[i].out = "expired"} IN
      IF E = {} THEN 0 ELSE CHOOSE i \in E : \A j \in E : i <= j

FirstHttp ==
    IF HttpIdx = {} THEN 0 ELSE CHOOSE i \in HttpIdx : \A j \in HttpIdx : i <= j

HttpAfter(i) == {j \in HttpIdx : j > i}

ResultOf(out) == IF out = "ok" THEN "ok" ELSE ExcOf(out)

(***************************************************************************)
(* C1: one call of _make_request issues at most two HTTP calls to the      *)
(* business endpoint (the first attempt plus at most one extra attempt),   *)
(* for every sequence of transport outcomes.                               *)
(***************************************************************************)
C1_AtMostTwoHttpCalls == Cardinality(HttpIdx) <= MAX_RETRY_ATTEMPTS

(***************************************************************************)
(* C2: when the first attempt fails with an API error that is not the      *)
(* "access token could not be verified" error, the error goes to the       *)
(* caller after that attempt: no second HTTP call is issued.               *)
(***************************************************************************)
C2_OtherErrorNotRetried ==
    (FirstHttp # 0 /\ log[FirstHttp].out = "other_error")
        => Cardinality(HttpIdx) = 1

(***************************************************************************)
(* C3: after an attempt that ended with the token-expiry signal the engine *)
(* acquires a token again and then issues exactly one more HTTP call whose *)
(* outcome is the outcome of the request, whatever the earlier attempts    *)
(* were: the next call is a token acquisition, at most one HTTP call       *)
(* follows, and the request ends either with the outcome of that one call  *)
(* (an error of it propagates, no further attempt) or, when the token      *)
(* could not be obtained, with that failure and no HTTP call.              *)
(***************************************************************************)
C3_ExpiredThenOneFinalCall ==
    FirstExpired # 0 =>
        LET i == FirstExpired
            after == HttpAfter(i)
        IN  /\ Cardinality(after) <= 1
            /\ Len(log) > i => log[i + 1].ev \in FetchEvents
            /\ Finished =>
                 \/ /\ Cardinality(after) = 1
                    /\ log[Len(log)].ev = "http"
                    /\ log[i + 1].out = "ok"
                    /\ result = ResultOf(log[Len(log)].out)
                    /\ pc = (IF result = "ok" THEN "returned" ELSE "raised")
                 \/ /\ after = {}
                    /\ pc = "raised"
                    /\ result \in {"ShopwareAPIError", "OAuthError"}
                    /\ Len(log) > i => log[Len(log)].out = "rejected"

\* an earlier attempt used up one retry, the next one ended with the expiry
\* signal, and the error of the one call after it went to the caller
C3_Witness ==
    /\ mode = "single"
    /\ pc = "raised"
    /\ result = "ShopwareAPIError"
    /\ Len(log) = 4
    /\ log[1].ev = "http" /\ log[1].out = "unverified"
    /\ log[2].ev = "http" /\ log[2].out = "expired"
    /\ log[3].ev \in FetchEvents /\ log[3].out = "ok"
    /\ log[4].ev = "http" /\ log[4].out = "other_error"

(***************************************************************************)
(* C4: a token record without refresh_token never causes a refresh call to *)
(* the token endpoint, and when such a token is signalled as expired every *)
(* later HTTP call of the request is preceded by a full acquisition of a   *)
(* new token (a fetch, not a refresh).                                     *)
(***************************************************************************)
C4_NoRefreshWithoutRefreshToken ==
    /\ \A i \in 1..Len(log) : log[i].ev = "refresh" => log[i].rt
    /\ \A i \in HttpIdx :
         (log[i].out = "expired" /\ ~log[i].rt /\ i = FirstExpired) =>
            /\ Len(log) > i => log[i + 1].ev \in FetchEvents
            /\ \A j \in HttpAfter(i) : log[i + 1].ev \in FetchEvents /\ log[i + 1].out = "ok"

C4_Witness ==
    /\ mode = "single"
    /\ pc = "returned"
    /\ Len(log) = 3
    /\ log[1].ev = "http" /\ log[1].out = "expired" /\ ~log[1].rt
    /\ log[2].ev = "fetch_client_credentials" /\ log[2].out = "ok"
    /\ log[3].ev = "http" /\ log[3].out = "ok"

(***************************************************************************)
(* C5 as stated: the re-acquisition after the expiry of a token that is    *)
(* not refreshable uses the grant the configuration selects (password      *)
(* grant for USER_CREDENTIALS, client-credentials for RESOURCE_OWNER).     *)
(***************************************************************************)
GrantOf(g) ==
    IF g = "USER_CREDENTIALS" THEN "fetch_password" ELSE "fetch_client_credentials"

C5_ReacquireByConfiguredGrant ==
    (mode = "single" /\ FirstExpired # 0 /\ ~log[FirstExpired].rt
       /\ Len(log) > FirstExpired /\ config.grant_type \in GrantType)
        => log[FirstExpired + 1].ev = GrantOf(config.grant_type)

(***************************************************************************)
(* C5 as amended: the re-acquisition after the expiry of a token that is   *)
(* not refreshable always uses the client-credentials grant, whatever      *)
(* grant type the configuration selects; it fails without a call to the    *)
(* token endpoint exactly when the URL, client id or client secret is      *)
(* missing.                                                                *)
(***************************************************************************)
C5_ReacquireByClientCredentials ==
    (mode = "single" /\ FirstExpired # 0 /\ ~log[FirstExpired].rt) =>
        /\ Len(log) > FirstExpired => log[FirstExpired + 1].ev = "fetch_client_credentials"
        /\ (Finished /\ Len(log) = FirstExpired) =>
              /\ {"shopware_admin_api_url", "client_id", "client_secret"} \cap config.missing # {}
              /\ result = "ShopwareAPIError"
        /\ (pc = "hrequest" \/ Len(log) > FirstExpired) =>
              {"shopware_admin_api_url", "client_id", "client_secret"} \cap config.missing = {}

\* the configuration selects the password grant, the stored token came
\* from the client-credentials grant and is re-acquired with it
C5_Witness ==
    /\ mode = "single"
    /\ config.grant_type = "USER_CREDENTIALS"
    /\ FirstExpired # 0
    /\ ~log[FirstExpired].rt
    /\ Len(log) > FirstExpired
    /\ log[FirstExpired + 1].ev = "fetch_client_credentials"
    /\ log[FirstExpired + 1].out = "ok"

(***************************************************************************)
(* Reading the locals of the current paginated call.                       *)
(***************************************************************************)
RECURSIVE SumSeq(_)
SumSeq(q) == IF q = <<>> THEN 0 ELSE q[1] + SumSeq(Tail(q))

RECURSIVE ConcatPages(_, _)
ConcatPages(sizes, k) ==
    IF k = 0 THEN <<>> ELSE ConcatPages(sizes, k - 1) \o Records(k, sizes[k])

Paged == mode = "paged"

NoLimit == Paged /\ pg.total_limit.t = "none"

WithLimit == Paged /\ pg.total_limit.t = "int"

\* the caller put a limit into the payload
CallerLimit == Paged /\ pg.given.limit.t = "int"

(***************************************************************************)
(* C6: without a limit every page request carries limit = junk_size (as    *)
(* its decimal string), the walk goes on after every non-empty page, also  *)
(* a short one, and ends exactly at the first empty page; the result is    *)
(* the concatenation, in order, of the pages returned.  The witness is the *)
(* run with junk_size 3 and pages of 3, 3, 2 and 0 records: 8 records and  *)
(* 4 page requests.                                                        *)
(***************************************************************************)
C6_NoLimitWalk ==
    NoLimit =>
        /\ \A k \in 1..Len(pg.sent) :
             pg.sent[k].limit.t # "none" /\ pg.sent[k].limit.v = pg.junk_size
        /\ \A k \in 1..Len(pg.pages) :
             (pg.pages[k] = 0) <=> (k = Len(pg.pages) /\ pg.pc = "returned")
        /\ pg.data = ConcatPages(pg.pages, Len(pg.pages))
        /\ pg.pc = "returned" => Len(pg.sent) = Len(pg.pages)

C6_Witness ==
    /\ NoLimit
    /\ pg.pc = "returned"
    /\ pg.junk_size = 3
    /\ pg.pages = <<3, 3, 2, 0>>
    /\ Len(pg.data) = 8
    /\ Len(pg.sent) = 4

(***************************************************************************)
(* C7 as stated: with a limit every page request carries                   *)
(* limit = min(remaining, junk_size), remaining being the limit minus the  *)
(* records received so far.                                                *)
(***************************************************************************)
C7_LimitIsMinOfRemaining ==
    CallerLimit =>
        \A k \in 1..Len(pg.sent) :
            k <= Len(pg.pages) + 1 =>
                pg.sent[k].limit =
                    IntV(MinOf(pg.total_limit.v - SumSeq(SubSeq(pg.pages, 1, k - 1)),
                               pg.junk_size))

(***************************************************************************)
(* C7 as amended: with a limit every page request carries the same         *)
(* limit = min(limit, junk_size), whatever was received before.  The       *)
(* witness is limit 4 with junk_size 3: both requests carry limit 3.       *)
(***************************************************************************)
C7_LimitIsMinOfTotal ==
    CallerLimit =>
        \A k \in 1..Len(pg.sent) :
            pg.sent[k].limit = IntV(MinOf(pg.total_limit.v, pg.junk_size))

C7_Witness ==
    /\ CallerLimit
    /\ pg.pc = "returned"
    /\ pg.given.limit = IntV(4)
    /\ pg.junk_size = 3
    /\ pg.pages = <<3, 1>>
    /\ pg.sent = <<[page |-> IntV(1), limit |-> IntV(3)], [page |-> IntV(2), limit |-> IntV(3)]>>
    /\ Len(pg.data) = 4

(***************************************************************************)
(* C8: with a limit L the result of a paginated call never holds more than *)
(* L records, and it holds exactly L unless the upstream returned an empty *)
(* page before L records were received.                                    *)
(***************************************************************************)
C8_ResultWithinLimit ==
    WithLimit =>
        /\ pg.pc = "returned" =>
             /\ Len(pg.data) <= pg.total_limit.v
             /\ Len(pg.data) = MinOf(pg.total_limit.v, SumSeq(pg.pages))
             /\ Len(pg.data) < pg.total_limit.v => pg.pages[Len(pg.pages)] = 0
        /\ pg.pc \in {"loop", "wait"} => SumSeq(pg.pages) < pg.total_limit.v \/ pg.pages = <<>>

\* six records were received for a limit of four
C8_Witness ==
    /\ WithLimit
    /\ pg.pc = "returned"
    /\ pg.total_limit.v = 4
    /\ SumSeq(pg.pages) = 6
    /\ Len(pg.data) = 4

(***************************************************************************)
(* C9: the k-th page request of a paginated call carries page = k, so the  *)
(* pages asked for are 1, 2, 3, ... without gap or repeat, and every HTTP  *)
(* call of a page request carries the number of the page after the pages   *)
(* received; a page the caller put into the payload is never sent.         *)
(***************************************************************************)
C9_PagesCountUp ==
    Paged =>
        /\ \A k \in 1..Len(pg.sent) : pg.sent[k].page = IntV(k)
        /\ pg.pc = "wait" =>
             /\ Len(pg.sent) = Len(pg.pages) + 1
             /\ pg.payload_dict.page = IntV(Len(pg.pages) + 1)

C9_Witness ==
    /\ Paged
    /\ pg.given.page = IntV(7)
    /\ pg.pc = "returned"
    /\ Len(pg.sent) = 3
    /\ pg.sent[3].page = IntV(3)

(***************************************************************************)
(* C10: with a non-empty ids list junk_size and the limit sent are         *)
(* len(ids) and exactly one page request is issued, whatever number of     *)
(* records comes back.                                                     *)
(***************************************************************************)
C10_IdsSinglePageRequest ==
    (Paged /\ pg.given.ids > 0) =>
        /\ pg.junk_size = pg.given.ids
        /\ \A k \in 1..Len(pg.sent) : pg.sent[k].limit = IntV(pg.given.ids)
        /\ Len(pg.sent) <= 1
        /\ pg.pc = "returned" => Len(pg.sent) = 1

(***************************************************************************)
(* Reading the Criteria and the dictionaries made of it.                   *)
(***************************************************************************)
HasLimit(c) == c.v.limit.t # "none"

HasIds(c) == Len(c.v.ids.v) > 0

\* some dict inside x, x included, has an entry that is None, [] or {}
RECURSIVE HasEmptyEntry(_)
HasEmptyEntry(x) ==
    CASE x.t = "dict" -> \E k \in DOMAIN x.v : IsEmptyValue(x.v[k]) \/ HasEmptyEntry(x.v[k])
      [] x.t = "list" -> \E i \in DOMAIN x.v : HasEmptyEntry(x.v[i])
      [] OTHER -> FALSE

(***************************************************************************)
(* C12: no operation leaves a Criteria with both a non-null limit and a    *)
(* non-empty ids list: the construction or assignment that would do so     *)
(* fails, so no Criteria ever holds both.                                  *)
(***************************************************************************)
C12_NeverLimitWithIds == ~(HasLimit(criteria) /\ HasIds(criteria))

(***************************************************************************)
(* C13: setting the ids of a Criteria whose limit is unset to a non-empty  *)
(* list leaves the Criteria with limit = len(ids) and page = 1.            *)
(***************************************************************************)
C13_SetIdsSetsLimitAndPage ==
    [][(~HasLimit(criteria) /\ criteria'.v.ids # criteria.v.ids /\ HasIds(criteria'))
          => /\ criteria'.v.limit = IntV(Len(criteria'.v.ids.v))
             /\ criteria'.v.page = IntV(1)]_vars

(***************************************************************************)
(* C14: the dictionary get_dict returns has no entry whose value is None,  *)
(* an empty list or an empty dict, at any nesting depth.                   *)
(***************************************************************************)
C14_NoEmptyAtAnyDepth == doc.t = "dict" => ~HasEmptyEntry(doc)

(***************************************************************************)
(* C15: recursive emptiness filtering tests an entry against its already   *)
(* filtered value, so an entry that is left empty once its own empty and   *)
(* None members are removed is omitted too: the filtered structure has no  *)
(* empty entry at any depth.                                               *)
(***************************************************************************)
C15_EmptiedParentOmitted == printed.t = "dict" => ~HasEmptyEntry(printed)

(***************************************************************************)
(* Reading an endpoint and the URL built for it.                           *)
(***************************************************************************)
InvalidEndpoint(e) ==
    \/ e = <<>>
    \/ HasDotDot(e)
    \/ \E i \in 1..Len(e) : e[i] \notin ValidEndpointChars

\* the endpoint without surrounding whitespace and then without leading slashes
Core(e) ==
    LET ns == {i \in 1..Len(e) : e[i] # " "} IN
      IF ns = {} THEN <<>>
      ELSE LET a == CHOOSE i \in ns : \A j \in ns : i <= j
               b == CHOOSE i \in ns : \A j \in ns : j <= i
               body == {i \in a..b : e[i] # "/"}
           IN  IF body = {} THEN <<>>
               ELSE SubSeq(e, CHOOSE i \in body : \A j \in body : i <= j, b)

\* no empty segment before the last one and no segment "."
Plain(e) ==
    LET segs == Split(e) IN
      /\ \A i \in 1..(Len(segs) - 1) : segs[i] # <<>>
      /\ \A i \in 1..Len(segs) : segs[i] # <<".">>

\* the segments that stay: the last one, emptied when it is ".", and of the
\* others those that are neither empty nor "."
KeptSegments(e) ==
    LET segs == Split(e)
        keep(seg) == seg # <<>> /\ seg # <<".">>
        last == segs[Len(segs)]
    IN  SelectSeq(SubSeq(segs, 1, Len(segs) - 1), keep)
        \o <<IF last = <<".">> THEN <<>> ELSE last>>

BaseNoSlash(b) == RStrip(b, {"/"})

(***************************************************************************)
(* C17 as stated: every endpoint that is empty, contains ".." or contains  *)
(* a character outside [A-Za-z0-9-_./] is rejected, and the URL built for  *)
(* an accepted endpoint e is base + "/" + e.                               *)
(***************************************************************************)
C17_RejectsAndPrefixes ==
    url.called =>
        /\ InvalidEndpoint(endpoint) => url.exc = "ShopwareAPIError"
        /\ url.exc = "none" => url.value = BaseNoSlash(url.base) \o <<"/">> \o endpoint

(***************************************************************************)
(* C17 as amended: validation first removes surrounding whitespace and     *)
(* then leading slashes; it rejects exactly the endpoints whose remainder  *)
(* s is empty, contains ".." or contains a character outside               *)
(* [A-Za-z0-9-_./]; for every accepted endpoint the URL is the base, one   *)
(* slash and s without its "." segments and without its empty segments     *)
(* before the last, which is base + "/" + s when s has no such segment.    *)
(***************************************************************************)
C17_SanitizedThenJoined ==
    url.called =>
        LET s == Core(endpoint) IN
          /\ url.exc \in {"none", "ShopwareAPIError"}
          /\ (url.exc = "ShopwareAPIError") <=> InvalidEndpoint(s)
          /\ (url.exc = "none" /\ Plain(s)) =>
                url.value = BaseNoSlash(url.base) \o <<"/">> \o s
          /\ url.exc = "none" =>
                url.value = BaseNoSlash(url.base) \o <<"/">> \o Join(KeptSegments(s))

\* " /p " is accepted and gives {base}/p
C17_Witness ==
    /\ url.called
    /\ endpoint = <<" ", "/", "p", " ">>
    /\ url.base = <<"H", "/", "p">>
    /\ url.exc = "none"
    /\ url.value = <<"H", "/", "p", "/", "p">>

(***************************************************************************)
(* Measures of the work a running call has left.                           *)
(***************************************************************************)
MaxOf(a, b) == IF a >= b THEN a ELSE b

Running == pc \in {"try", "request", "handler", "hrequest"}

PagedRunning == Paged /\ pg.pc \in {"loop", "wait"}

\* what one request has left: the retries, then the position in the attempt
EngineRank ==
    CASE pc = "try" -> 4 * retry + 3
      [] pc = "request" -> 4 * retry + 2
      [] pc = "handler" -> 4 * retry + 1
      [] pc = "hrequest" -> 4 * retry
      [] OTHER -> 0

\* the pages a paginated call can still ask for: the records still wanted
\* with a limit, the pages up to the upstream's empty page without one
PagesLeft ==
    IF pg.total_limit.t = "none"
    THEN MaxPages + 1 - pg.page
    ELSE MaxOf(pg.records_left, 0)

PagedRank ==
    IF Paged
    THEN 64 * PagesLeft
         + 16 * (CASE pg.pc = "loop" -> 2 [] pg.pc = "wait" -> 1 [] OTHER -> 0)
    ELSE 0

Rank == PagedRank + EngineRank

(***************************************************************************)
(* C11: every loop terminates when each transport call returns.  One       *)
(* request ends after at most MAX_RETRY_ATTEMPTS + 1 HTTP calls, each with *)
(* at most one refresh, and at most two token acquisitions, whatever the   *)
(* transport answers; a paginated call ends, its upstream returning an     *)
(* empty page at the latest at page MaxPages when there is no limit; and   *)
(* with a limit L it ends after at most max(1, L) page requests.  A call   *)
(* that has not ended can always take a step, and every step it takes      *)
(* lowers a measure that is never negative.                                *)
(***************************************************************************)
C11_LoopsTerminate ==
    /\ [](Cardinality(HttpIdx) <= MAX_RETRY_ATTEMPTS + 1)
    /\ [](Len(log) <= 2 * (MAX_RETRY_ATTEMPTS + 1) + 2)
    /\ [](WithLimit => Len(pg.sent) <= MaxOf(1, pg.total_limit.v))
    /\ [](NoLimit => Len(pg.sent) <= MaxPages)
    /\ [](Rank >= 0)
    /\ []((Running \/ PagedRunning) => ENABLED NextTermination)
    /\ [][(Running \/ PagedRunning) => Rank' < Rank]_vars

\* the same under the fairness of SpecTermination: a call that runs ends
C11_EventuallyEnds ==
    /\ Running ~> Finished
    /\ PagedRunning ~> (Paged /\ pg.pc \in {"returned", "raised"})

\* a limit of 4 used up by 4 page requests of one record each
C11_Witness ==
    /\ WithLimit
    /\ pg.pc = "returned"
    /\ pg.total_limit.v = 4
    /\ pg.pages = <<1, 1, 1, 1>>
    /\ Len(pg.sent) = 4

(***************************************************************************)
(* Reading the configuration of the current request.                       *)
(***************************************************************************)
\* the credentials the grant the configuration selects needs
RequiredCredentials(g) ==
    IF g = "USER_CREDENTIALS"
    THEN {"shopware_admin_api_url", "username", "password"}
    ELSE {"shopware_admin_api_url", "client_id", "client_secret"}

(***************************************************************************)
(* C18: a request that starts with an empty token record acquires a token  *)
(* with the grant the configuration selects (password grant for            *)
(* USER_CREDENTIALS, client-credentials grant for RESOURCE_OWNER) before   *)
(* any business call: no HTTP call is made and none is about to be made    *)
(* while the record is empty, and a request whose first call is a token    *)
(* acquisition made it with the configured grant.  With a grant type that  *)
(* is neither of the two the request fails with an error and calls         *)
(* nothing.                                                                *)
(***************************************************************************)
C18_AcquireByConfiguredGrant ==
    mode = "single" =>
        /\ token = NoToken => (HttpIdx = {} /\ pc \notin {"request", "hrequest", "returned"})
        /\ (log # <<>> /\ log[1].ev \in FetchEvents) =>
              /\ config.grant_type \in GrantType
              /\ log[1].ev = GrantOf(config.grant_type)
        /\ (HttpIdx # {} /\ log[1].ev \in FetchEvents) => log[1].out = "ok"
        /\ (token = NoToken /\ config.grant_type \notin GrantType) =>
              /\ log = <<>>
              /\ Finished => (pc = "raised" /\ result = "ShopwareAPIError")

\* the record was empty, the configuration selects RESOURCE_OWNER: the
\* client-credentials grant, then the business call
C18_Witness ==
    /\ mode = "single"
    /\ config.grant_type = "RESOURCE_OWNER"
    /\ pc = "returned"
    /\ Len(log) = 2
    /\ log[1].ev = "fetch_client_credentials" /\ log[1].out = "ok"
    /\ log[2].ev = "http" /\ log[2].out = "ok"

(***************************************************************************)
(* C19: when a credential the configured grant needs is missing, the       *)
(* acquisition fails before any call to the token endpoint and the error   *)
(* goes to the caller at once: the request ends with that error and the    *)
(* engine does not start a second attempt.                                 *)
(***************************************************************************)
C19_MissingCredentialFatal ==
    (mode = "single" /\ token = NoToken /\ config.grant_type \in GrantType
       /\ RequiredCredentials(config.grant_type) \cap config.missing # {}) =>
        /\ log = <<>>
        /\ pc = "try" => retry = MAX_RETRY_ATTEMPTS
        /\ Finished => (pc = "raised" /\ result = "ShopwareAPIError")

(***************************************************************************)
(* C20: a request with a payload of raw bytes and the content type json is *)
(* rejected at once: no HTTP call to the business endpoint is made for it, *)
(* it ends with an error, and after the attempt that found the mismatch    *)
(* the engine does not start another one.                                  *)
(***************************************************************************)
C20_BytesWithJsonRejectedAtOnce ==
    (mode = "single" /\ IsTypeBytes(payload) /\ Lower(content_type) = CONTENT_TYPE_JSON
       /\ token # NoToken) =>
        /\ HttpIdx = {}
        /\ pc \notin {"returned", "handler", "hrequest"}
        /\ pc = "try" => retry = MAX_RETRY_ATTEMPTS

(***************************************************************************)
(* Reading the last exchange with the transport.                           *)
(***************************************************************************)
Success == reply.called /\ reply.status \in 200..299

NoJson == reply.body \in {"empty", "undecodable"}

(***************************************************************************)
(* C21: for every request method of the admin and of the storefront        *)
(* client, a 2xx response whose body is empty or is not JSON gives the     *)
(* empty dictionary as the result and no error.                            *)
(***************************************************************************)
C21_EmptyBodyGivesEmptyDict ==
    (Success /\ NoJson) => (reply.exc = "none" /\ reply.value = "empty_dict")

(***************************************************************************)
(* C22: the construction of a RangeFilter succeeds exactly when every key  *)
(* of its parameters is one of gte, lte, gt, lt; with any other key it     *)
(* fails with a validation error and there is no filter object, and a      *)
(* filter that was made holds the parameters it was given.                 *)
(***************************************************************************)
C22_RangeKeysValidated ==
    my_filter.made =>
        /\ my_filter.exc \in {"none", "ValidationError"}
        /\ (my_filter.exc = "none")
              <=> (DOMAIN my_filter.parameters \subseteq {"gte", "lte", "gt", "lt"})
        /\ my_filter.exc # "none" => my_filter.value = NoneV
        /\ my_filter.exc = "none" =>
              /\ my_filter.value.t = "model"
              /\ my_filter.value.v.parameters = DictV(my_filter.parameters)

\* RangeFilter(field='stock', parameters={'gte': 20, 'less': 20}) fails
C22_Witness ==
    /\ my_filter.made
    /\ DOMAIN my_filter.parameters = {"gte", "less"}
    /\ my_filter.parameters["less"] = IntV(20)
    /\ my_filter.exc = "ValidationError"
    /\ my_filter.value = NoneV

(***************************************************************************)
(* C23: a Criteria handed over as the payload of a single or a paginated   *)
(* request is never modified: while the call runs and when it has returned *)
(* or raised, the Criteria is the one the caller gave, whatever the number *)
(* of pages and retries.                                                   *)
(***************************************************************************)
C23_CriteriaPayloadUntouched ==
    /\ []((Paged /\ IsTypeCriteria(pg.given)) => payload = pg.given)
    /\ [][(IsTypeCriteria(payload) /\ mode' # "idle") => payload' = payload]_vars

\* a Criteria with limit 4 and page 7 after a paginated call of two pages,
\* the second of which needed a second attempt
C23_Witness ==
    /\ Paged
    /\ pg.pc = "wait"
    /\ pc = "returned"
    /\ Len(pg.sent) = 2
    /\ Cardinality(HttpIdx) = 2
    /\ pg.given = [kind |-> "criteria", limit |-> IntV(4), page |-> IntV(7), ids |-> 0]
    /\ payload = pg.given

(***************************************************************************)
(* C24: for each of the methods GET, POST, PUT, PATCH and DELETE of the    *)
(* admin client, every header field the caller passes in                   *)
(* update_header_fields is, with the value the caller gave, among the      *)
(* headers of the request handed to the transport.                         *)
(***************************************************************************)
C24_CallerHeadersSent ==
    (reply.called /\ reply.client = "admin" /\ reply.method \in HttpMethods) =>
        \A k \in DOMAIN reply.update :
            k \in DOMAIN reply.sent /\ reply.sent[k] = reply.update[k]

(***************************************************************************)
(* C25: the test of the token record and the acquisition are not one       *)
(* atomic step.  Every caller that saw the record empty calls the token    *)
(* endpoint itself, so the endpoint has issued one token for each caller   *)
(* that holds one; while a caller is between its test and its assignment   *)
(* the record stays empty unless another caller has assigned; and an       *)
(* assignment replaces whatever the record holds by the caller's own       *)
(* token.  The witness is the interleaving in which both callers saw the   *)
(* record empty, the endpoint was called twice and the later assignment    *)
(* replaced the earlier token.                                             *)
(***************************************************************************)
C25_CheckThenAcquireNotAtomic ==
    /\ [](issued = Cardinality({t \in Callers : th[t].fetched # NoToken}))
    /\ [](\A t \in Callers :
            th[t].pc \in {"fetch", "store"} =>
                \/ token = NoToken
                \/ \E u \in Callers \ {t} :
                     th[u].pc \in {"session", "done"} /\ token = th[u].fetched)
    /\ [][\A t \in Callers :
            (th[t].pc = "store" /\ th'[t].pc = "session") => token' = th[t].fetched]_vars

C25_Witness ==
    /\ issued = 2
    /\ th[1].pc = "done"
    /\ th[2].pc = "done"
    /\ th[1].fetched.access_token = 1
    /\ th[2].fetched.access_token = 2
    /\ token = th[2].fetched

(***************************************************************************)
(* C26: in every attempt the token is resolved and the session is built    *)
(* before the HTTP call to the business endpoint: whenever the engine is   *)
(* about to issue the call the token record is not empty and the session   *)
(* is the one built for that record, and no call has been issued while the *)
(* record is empty.                                                        *)
(***************************************************************************)
C26_TokenBeforeBusinessCall ==
    /\ pc \in {"request", "hrequest"} =>
          /\ token # NoToken
          /\ session = BuildSession(token)
    /\ HttpIdx # {} => token # NoToken
    /\ token = NoToken => session = InitialSession

\* after an expiry signal: the token re-acquired, the session built, the
\* call about to be issued
C26_Witness ==
    /\ mode = "single"
    /\ pc = "hrequest"
    /\ FirstExpired # 0
    /\ log[Len(log)].ev \in FetchEvents
    /\ log[Len(log)].out = "ok"
    /\ session = BuildSession(token)

(***************************************************************************)
(* C27: while no token expiry is signalled (no TokenExpiredError and no    *)
(* refresh by the session) the token endpoint is called once: a token is   *)
(* fetched only when the record is empty or in the handler of an expiry    *)
(* signal, a request without expiry signal fetches at most once, a fetch   *)
(* that succeeds leaves the record non-empty, a request cannot return      *)
(* while the record is empty, and a record that is not empty never becomes *)
(* empty again.  So the first request that succeeds has fetched the token  *)
(* and every later one reuses it.                                          *)
(***************************************************************************)
C27_TokenAcquiredOnce ==
    /\ [][(Len(log') > Len(log) /\ log'[Len(log) + 1].ev \in FetchEvents)
             => (token = NoToken \/ pc = "handler")]_vars
    /\ [][(Len(log') > Len(log) /\ log'[Len(log) + 1].ev \in FetchEvents
             /\ log'[Len(log) + 1].out = "ok") => token' # NoToken]_vars
    /\ [][token # NoToken => token' # NoToken]_vars
    /\ [](FirstExpired = 0 =>
             Cardinality({i \in 1..Len(log) : log[i].ev \in FetchEvents}) <= 1)
    /\ []((mode = "single" /\ pc = "returned") => token # NoToken)

\* a request that returned after one HTTP call and no call to the token
\* endpoint: the token of an earlier request was reused
C27_Witness ==
    /\ mode = "single"
    /\ pc = "returned"
    /\ token # NoToken
    /\ Len(log) = 1
    /\ log[1].ev = "http"
    /\ log[1].out = "ok"

(***************************************************************************)
(* C28: a token acquisition that fails leaves the token record as it was:  *)
(* a step in which the token endpoint rejects a fetch, and a step in which *)
(* the acquisition fails on a missing credential before any call, do not   *)
(* change the record.                                                      *)
(***************************************************************************)
C28_FailedAcquisitionKeepsToken ==
    /\ [][(Len(log') > Len(log) /\ log'[Len(log')].ev \in FetchEvents
             /\ log'[Len(log')].out = "rejected") => token' = token]_vars
    /\ [][(pc \in {"try", "handler"} /\ pc' \notin {"request", "hrequest"} /\ log' = log)
             => token' = token]_vars

\* the token endpoint rejected the re-acquisition after an expiry signal:
\* the stored token is kept
C28_Witness ==
    /\ mode = "single"
    /\ pc = "raised"
    /\ result = "OAuthError"
    /\ FirstExpired # 0
    /\ log[Len(log)].ev \in FetchEvents
    /\ log[Len(log)].out = "rejected"
    /\ token # NoToken

(***************************************************************************)
(* C29: a paginated request does not modify a dict the caller passes as    *)
(* payload: while the call runs and when it has ended the dict has the     *)
(* limit and the page it had before.                                       *)
(***************************************************************************)
C29_DictPayloadUntouched ==
    (Paged /\ pg.given.kind = "dict") => payload = pg.given

====
